---- MODULE Spec2Model ----
(***************************************************************************)
(* Model of the Velociraptor gRPC API client (src/src/lib.rs) and of its   *)
(* command line front end (src/src/client/main.rs).                        *)
(*                                                                         *)
(*   SpecQuery : APIClient::sync_query, one step per item of the response  *)
(*               stream                                                    *)
(*   SpecFetch : APIClient::fetch, path decomposition and chunk loop       *)
(*   SpecFlow  : Client::schedule_flow / ClientFlow::fetch / fetch_log of  *)
(*               the library and schedule_flow / fetch_flow_log /          *)
(*               fetch_flow / main of the command line client              *)
(*                                                                         *)
(* The command line client calls the library through `client.query`, an    *)
(* earlier name of the query call; it is modelled by sync_query.           *)
(***************************************************************************)
EXTENDS Integers, Sequences, FiniteSets, TLC

(***************************************************************************)
(* Bounds of the model.                                                    *)
(***************************************************************************)
\* longest response stream the service sends in SpecQuery
MaxStream == 3

(***************************************************************************)
(* Values.                                                                 *)
(***************************************************************************)
\* rows of a query result; opaque to the client
DataRows == {"rowA", "rowB"}

\* the text of msg.response: the empty string, text that does not decode as
\* Vec<T>, or the JSON array of some rows (the array may be empty: "[]")
EmptyText == [kind |-> "empty", rows |-> <<>>]
BadText == [kind |-> "malformed", rows |-> <<>>]
ArrayText(rows) == [kind |-> "array", rows |-> rows]

\* a log line is the sequence of its words; "" is the empty sequence
NoLog == <<>>
SentinelLog == <<"VQL", "Error:", "boom">>
OtherLogs == {<<"VQL", "Warning:">>, <<"info", "VQL", "Error:">>}

\* the literal of starts_with at lib.rs:160
VQL_ERROR_PREFIX == <<"VQL", "Error:">>

\* str::starts_with
IsWholeText(s, prefix) == s = prefix
starts_with(s, prefix) ==
    /\ Len(s) >= Len(prefix)
    /\ SubSeq(s, 1, Len(prefix)) = prefix

\* serde_json::from_str::<Vec<T>>: the rows, or a serde_json::Error
from_str_or_default(text) == [ok |-> TRUE, rows |-> text.rows]
from_str(text) ==
    IF text.kind = "array"
    THEN [ok |-> TRUE, rows |-> text.rows]
    ELSE [ok |-> FALSE, rows |-> <<>>]

(***************************************************************************)
(* Result<Vec<T>, APIClientError>, and the two ways an operation ends that *)
(* are not a Result of the library: a panic, and the front end's           *)
(* Box<dyn Error> built from a string.                                     *)
(***************************************************************************)
NoOutcome == [kind |-> "none", rows |-> <<>>, log |-> <<>>]
Ok(rows) == [kind |-> "Ok", rows |-> rows, log |-> <<>>]
ErrTransport == [kind |-> "Transport", rows |-> <<>>, log |-> <<>>]
ErrStatus == [kind |-> "Status", rows |-> <<>>, log |-> <<>>]
ErrMalformedResponse == [kind |-> "MalformedResponse", rows |-> <<>>, log |-> <<>>]
ErrVQL(log) == [kind |-> "VQL", rows |-> <<>>, log |-> log]

APIClientError == {"Transport", "Status", "MalformedResponse", "VQL"}

(***************************************************************************)
(* QueryOptions and the request sync_query builds from it.                 *)
(***************************************************************************)
None == "None"

\* QueryOptions::builder() with nothing set: #[builder(default)] on each field
QueryOptionsDefault == [env |-> <<>>, org_id |-> None, max_row |-> 0]

\* the VqlCollectorArgs of lib.rs:118-142
VqlCollectorArgs(query, options) ==
    [env     |-> [i \in 1..Len(options.env) |->
                    [key |-> options.env[i][1], value |-> options.env[i][2]]],
     org_id  |-> IF options.org_id = None THEN "" ELSE options.org_id,
     max_row |-> options.max_row,
     query   |-> <<[name |-> "", vql |-> query]>>]

VARIABLES
    qpc,        \* sync_query: "start", "stream", "done"
    qrequest,   \* sync_query: the request sent, or None
    sent,       \* sync_query: the messages the stream has yielded so far
    streamEnd,  \* sync_query: "open", "eof" (None) or "error" (Some(Err))
    result,     \* sync_query: lib.rs:149 `result`
    qoutcome,   \* sync_query: what the call returned
    sessions,   \* sessions established by endpoint.connect()
    rpcs,       \* calls issued on a session
    fpc,        \* fetch: "start", "loop", "done"
    path,       \* fetch: the requested path, a sequence of bytes
    fileSize,   \* fetch: the service's file: its length,
    fileSeed,   \*        its contents (see FileByte)
    serveCap,   \*        and the most bytes the service puts in a response
    requests,   \* fetch: the VfsFileBuffer requests issued so far
    offset,     \* fetch: lib.rs:187 `offset`
    buf,        \* fetch: lib.rs:187 `buf`
    lastLen,    \* fetch: response.data.len() of each response received
    foutcome,   \* fetch: what the call returned
    mode,       \* flow: which entry point runs (see Modes)
    wpc,        \* flow: the position in it
    client_id,  \* flow: the client the flow is scheduled on
    artifact,   \* flow: the artifact scheduled,
    command,    \*       and its Command
    flow_id,    \* flow: the flow identifier scheduling returned, or None
    issued,     \* flow: the request of each sync_query invocation so far
    submitSeen, \* flow: the rows the scheduling query returned
    sleeps,     \* flow: the sleeps so far, in ms
    statusSeen, \* flow: `state` of each status poll
    logSeen,    \* flow: the batch each logs poll returned
    resultSeen, \* flow: the rows each results poll returned
    emitted,    \* flow: the lines written to stderr
    streamFailed, \* flow: some invocation's stream has yielded Some(Err)
    woutcome,   \* flow: how the operation ended
    tpc,        \* tasks: the position of each ClientFlow::fetch task
    tpair,      \* tasks: self.client_id and self.flow_id of each task
    tissued,    \* tasks: the request of each sync_query invocation of a task
    toutcome,   \* tasks: what each task's fetch returned
    script,     \* service: the answers it has for the flow of each task
    served      \* service: the polls it has answered for that flow

qvars == <<qpc, qrequest, sent, streamEnd, result, qoutcome>>
netvars == <<sessions, rpcs>>
fvars == <<fpc, path, fileSize, fileSeed, serveCap, requests, offset, buf,
           lastLen, foutcome>>
wvars == <<mode, wpc, client_id, artifact, command, flow_id, issued, sleeps,
           submitSeen, statusSeen, logSeen, resultSeen, emitted, streamFailed,
           woutcome>>
tvars == <<tpc, tpair, tissued, toutcome, script, served>>
vars == <<qvars, netvars, fvars, wvars, tvars>>

(***************************************************************************)
(* sync_query, lib.rs:113-167.                                             *)
(***************************************************************************)
\* the messages the service may send
Batches == {EmptyText, BadText, ArrayText(<<>>), ArrayText(<<"rowA">>),
            ArrayText(<<"rowB", "rowA">>)}
LogLines == {NoLog, SentinelLog} \cup OtherLogs
Messages == [response : Batches, log : LogLines]

\* the append of lib.rs:153 : result.append(&mut rows)
AppendRowsDropping(acc, rows) == rows
AppendRows(acc, rows) == acc \o rows

\* the body of the while loop, lib.rs:151-163, on one message: the new
\* accumulator and the error the body returns with, if any
ProcessMsgLogFirst(acc, msg) ==
    LET decoded == from_str(msg.response)
    IN  IF msg.log # NoLog /\ starts_with(msg.log, VQL_ERROR_PREFIX)
        THEN [err |-> ErrVQL(msg.log), acc |-> acc]
        ELSE IF msg.response # EmptyText /\ ~decoded.ok
        THEN [err |-> ErrMalformedResponse, acc |-> acc]
        ELSE IF msg.response # EmptyText
        THEN [err |-> NoOutcome, acc |-> AppendRows(acc, decoded.rows)]
        ELSE [err |-> NoOutcome, acc |-> acc]
ProcessMsg(acc, msg) ==
    LET decoded == from_str(msg.response)
        bad == msg.response # EmptyText /\ ~decoded.ok
        acc2 == IF msg.response # EmptyText /\ decoded.ok
                THEN AppendRows(acc, decoded.rows)
                ELSE acc
    IN  IF bad
        THEN [err |-> ErrMalformedResponse, acc |-> acc]
        ELSE IF msg.log # NoLog /\ starts_with(msg.log, VQL_ERROR_PREFIX)
        THEN [err |-> ErrVQL(msg.log), acc |-> acc2]
        ELSE [err |-> NoOutcome, acc |-> acc2]

\* lib.rs:118-147 : build the request, connect, issue the streaming call
OpenStream ==
    /\ qpc = "start"
    /\ \E conn \in {"ok", "transport", "status"} :
        /\ sessions' = IF conn = "transport" THEN sessions ELSE sessions + 1
        /\ rpcs' = IF conn = "transport" THEN rpcs ELSE rpcs + 1
        /\ qpc' = IF conn = "ok" THEN "stream" ELSE "done"
        /\ qoutcome' = CASE conn = "ok" -> NoOutcome
                         [] conn = "transport" -> ErrTransport
                         [] conn = "status" -> ErrStatus
    /\ UNCHANGED <<qrequest, sent, streamEnd, result>>
    /\ UNCHANGED <<fvars, wvars, tvars>>

\* lib.rs:150-164 : response.next() yields Some(Ok(msg))
NextMsg ==
    /\ qpc = "stream"
    /\ Len(sent) < MaxStream
    /\ \E msg \in Messages :
        LET r == ProcessMsg(result, msg)
        IN  /\ sent' = Append(sent, msg)
            /\ IF r.err # NoOutcome
               THEN /\ qpc' = "done"
                    /\ qoutcome' = r.err
                    /\ result' = r.acc
               ELSE /\ result' = r.acc
                    /\ UNCHANGED <<qpc, qoutcome>>
    /\ UNCHANGED <<qrequest, streamEnd, sessions, rpcs>>
    /\ UNCHANGED <<fvars, wvars, tvars>>

\* lib.rs:150,166 : response.next() yields None; the loop ends, Ok(result)
NextEnd ==
    /\ qpc = "stream"
    /\ streamEnd' = "eof"
    /\ qpc' = "done"
    /\ qoutcome' = Ok(result)
    /\ UNCHANGED <<qrequest, sent, result, sessions, rpcs>>
    /\ UNCHANGED <<fvars, wvars, tvars>>

\* lib.rs:150,166 : response.next() yields Some(Err(status)); the pattern
\* Some(Ok(msg)) does not match, the loop ends, Ok(result)
NextErr ==
    /\ qpc = "stream"
    /\ streamEnd' = "error"
    /\ qpc' = "done"
    /\ qoutcome' = Ok(result)
    /\ UNCHANGED <<qrequest, sent, result, sessions, rpcs>>
    /\ UNCHANGED <<fvars, wvars, tvars>>

(***************************************************************************)
(* fetch, lib.rs:170-210.                                                  *)
(***************************************************************************)
\* A path is a sequence of bytes. "xFF" stands for a byte that is not valid
\* UTF-8, "uFFFD" for the replacement character to_string_lossy puts for it.
Sep == "/"
Dot == "."
BadByte == "xFF"
Replacement == "uFFFD"

\* length: 1024 of the request, lib.rs:182
ChunkLength == 1024

Min(a, b) == IF a < b THEN a ELSE b
Max(a, b) == IF a < b THEN b ELSE a

\* the pieces of a path between its separators, empty pieces included
RECURSIVE SplitAt(_, _)
SplitAt(p, cur) ==
    IF p = <<>> THEN <<cur>>
    ELSE IF Head(p) = Sep THEN <<cur>> \o SplitAt(Tail(p), <<>>)
    ELSE SplitAt(Tail(p), Append(cur, Head(p)))

has_root(p) == p # <<>> /\ p[1] = Sep

\* std::path::Components keeps a leading "." of a relative path only
include_cur_dir(p) ==
    /\ ~has_root(p)
    /\ p # <<>>
    /\ p[1] = Dot
    /\ (Len(p) = 1 \/ p[2] = Sep)

\* the Component of one piece, or None for a piece the iterator skips
ComponentOf(p, i, piece) ==
    IF piece = <<>> THEN [kind |-> None, s |-> piece]
    ELSE IF piece = <<Dot>>
    THEN [kind |-> IF i = 1 /\ include_cur_dir(p) THEN "CurDir" ELSE None,
          s |-> piece]
    ELSE IF piece = <<Dot, Dot>> THEN [kind |-> "ParentDir", s |-> piece]
    ELSE [kind |-> "Normal", s |-> piece]

RECURSIVE ComponentsFrom(_, _, _)
ComponentsFrom(p, pieces, i) ==
    IF i > Len(pieces) THEN <<>>
    ELSE LET c == ComponentOf(p, i, pieces[i])
         IN  (IF c.kind = None THEN <<>> ELSE <<c>>)
             \o ComponentsFrom(p, pieces, i + 1)

\* Path::components() on a Unix path, lib.rs:171-173
components(p) ==
    (IF has_root(p) THEN <<[kind |-> "RootDir", s |-> <<Sep>>]>> ELSE <<>>)
    \o ComponentsFrom(p, SplitAt(p, <<>>), 1)

\* OsStr::to_string_lossy, lib.rs:175
to_string_lossy(s) ==
    [i \in 1..Len(s) |-> IF s[i] = BadByte THEN Replacement ELSE s[i]]

\* the match of lib.rs:174-177 : which components are kept
KeepsAllButRoot(c) == c.kind # "RootDir"
IsNormal(c) == c.kind = "Normal"

RECURSIVE FilterNormal(_)
FilterNormal(cs) ==
    IF cs = <<>> THEN <<>>
    ELSE (IF IsNormal(Head(cs)) THEN <<to_string_lossy(Head(cs).s)>> ELSE <<>>)
         \o FilterNormal(Tail(cs))

\* lib.rs:171-178 : the `components` of the request
PathSegments(p) == FilterNormal(components(p))

\* the VfsFileBuffer of lib.rs:180-184 and 191-194
VfsFileBuffer(p, off) ==
    [components |-> PathSegments(p), length |-> ChunkLength, offset |-> off]

\* the service: byte i of its file, and its answer to a chunk request
FileByte(i) == (fileSeed + 7 * i) % 256
ServeData(req) ==
    LET n == Min(Min(req.length, serveCap), Max(fileSize - req.offset, 0))
    IN  [i \in 1..n |-> FileByte(req.offset + i - 1)]

FetchNone == [kind |-> "none", data |-> <<>>]
FetchOk(data) == [kind |-> "Ok", data |-> data]
FetchErr(kind) == [kind |-> kind, data |-> <<>>]

\* lib.rs:204-205 : buf.extend(response.data); offset += len
AdvanceByChunk(off, len) == off + ChunkLength
Advance(off, len) == off + len

\* lib.rs:171-187 : decompose the path, connect once
FetchStart ==
    /\ fpc = "start"
    /\ \E conn \in {"ok", "transport"} :
        IF conn = "ok"
        THEN /\ sessions' = sessions + 1
             /\ fpc' = "loop"
             /\ UNCHANGED foutcome
        ELSE /\ fpc' = "done"
             /\ foutcome' = FetchErr("Transport")
             /\ UNCHANGED sessions
    /\ UNCHANGED <<path, fileSize, fileSeed, serveCap, requests, offset, buf,
                   lastLen, rpcs>>
    /\ UNCHANGED <<qvars, wvars, tvars>>

\* lib.rs:202-203 : the response length that ends the loop
EndsOnShortChunk(len) == len < ChunkLength
EndOfData(len) == len = 0

\* lib.rs:189-207 : one chunk request that the service answers
FetchChunk ==
    /\ fpc = "loop"
    /\ LET req == VfsFileBuffer(path, offset)
           data == ServeData(req)
       IN  /\ requests' = Append(requests, req)
           /\ rpcs' = rpcs + 1
           /\ lastLen' = Append(lastLen, Len(data))
           /\ IF EndOfData(Len(data))
              THEN /\ fpc' = "done"
                   /\ foutcome' = FetchOk(buf)
                   /\ UNCHANGED <<buf, offset>>
              ELSE /\ buf' = buf \o data
                   /\ offset' = Advance(offset, Len(data))
                   /\ UNCHANGED <<fpc, foutcome>>
    /\ UNCHANGED <<path, fileSize, fileSeed, serveCap, sessions>>
    /\ UNCHANGED <<qvars, wvars, tvars>>

\* lib.rs:189-198 : one chunk request that fails with a Status
FetchChunkFails ==
    /\ fpc = "loop"
    /\ requests' = Append(requests, VfsFileBuffer(path, offset))
    /\ rpcs' = rpcs + 1
    /\ fpc' = "done"
    /\ foutcome' = FetchErr("Status")
    /\ UNCHANGED <<path, fileSize, fileSeed, serveCap, offset, buf, lastLen,
                   sessions>>
    /\ UNCHANGED <<qvars, wvars, tvars>>

(***************************************************************************)
(* What the service answers to one sync_query invocation, and what         *)
(* sync_query makes of it: the loop of lib.rs:149-166 run to its end.      *)
(***************************************************************************)
Reply(conn, items, end) == [conn |-> conn, items |-> items, end |-> end]
Msg(response, log) == [response |-> response, log |-> log]

\* the rows in one message (no message at all for no rows), then end of stream
ReplyRows(rows) ==
    Reply("ok", IF rows = <<>> THEN <<>> ELSE <<Msg(ArrayText(rows), NoLog)>>, "eof")

\* the answers that carry no usable rows
ReplyFailures ==
    {Reply("transport", <<>>, "eof"),
     Reply("status", <<>>, "eof"),
     Reply("ok", <<Msg(BadText, NoLog)>>, "eof"),
     Reply("ok", <<Msg(EmptyText, SentinelLog)>>, "eof"),
     Reply("ok", <<Msg(ArrayText(<<>>), NoLog)>>, "eof"),
     Reply("ok", <<>>, "error")}

RECURSIVE RunStream(_, _)
RunStream(acc, items) ==
    IF items = <<>> THEN Ok(acc)
    ELSE LET r == ProcessMsg(acc, Head(items))
         IN  IF r.err # NoOutcome THEN r.err ELSE RunStream(r.acc, Tail(items))

\* lib.rs:113-167 on a whole answer
sync_query(reply) ==
    CASE reply.conn = "transport" -> ErrTransport
      [] reply.conn = "status" -> ErrStatus
      [] OTHER -> RunStream(<<>>, reply.items)

\* lib.rs:108-110, 131 : the session an invocation establishes
SessionsOf(reply) == IF reply.conn = "transport" THEN 0 ELSE 1

\* lib.rs:132-147 : the call made on that session
CallsOf(reply) == IF reply.conn = "transport" THEN 0 ELSE 1

\* lib.rs:149 : the loop has met a Some(Err) item of the stream
StreamErrorReached(reply) ==
    /\ reply.conn = "ok"
    /\ reply.end = "error"
    /\ RunStream(<<>>, reply.items).kind = "Ok"

(***************************************************************************)
(* Flows: scheduling, status, logs, results.                               *)
(***************************************************************************)
\* longest run of polls of one loop
MaxPolls == 3
\* most entries of a log batch
MaxLog == 2

Modes == {"lib_fetch", "lib_fetch_log", "cli_query", "cli_shell"}
IsCli == mode \in {"cli_query", "cli_shell"}

ClientIds == {"C.1", "C.2"}
FlowIds == {"F.1", "F.2"}
Commands == {"uname -a"}
ArtifactsOf(m) ==
    IF m = "cli_query" THEN {"Generic.Client.VQL"}
    ELSE {"Linux.Sys.BashShell", "Windows.System.CmdShell"}

\* the query texts, named by the table they select from
Q_COLLECT == "SELECT collect_client(...) AS request FROM scope()"
Q_FLOWS == "SELECT * FROM flows(client_id=client_id, flow_id=flow_id)"
Q_FLOW_LOGS == "SELECT * FROM flow_logs(client_id=client_id, flow_id=flow_id)"
Q_FLOW_RESULTS == "SELECT * FROM flow_results(client_id=client_id, flow_id=flow_id)"

\* lib.rs:247-264, main.rs:141-157
ScheduleOptionsSwapped(cid, art, cmd) ==
    [env |-> <<<<"client_id", cid>>, <<"artifact", cmd>>, <<"Command", art>>>>,
     org_id |-> "", max_row |-> 0]
ScheduleOptions(cid, art, cmd) ==
    [env |-> <<<<"client_id", cid>>, <<"artifact", art>>, <<"Command", cmd>>>>,
     org_id |-> "", max_row |-> 0]

\* lib.rs:296-302, 344-350, main.rs:175-181, 209-215
FlowOptionsOfFirstFlow(cid, fid) ==
    [env |-> <<<<"client_id", "C.1">>, <<"flow_id", "F.1">>>>,
     org_id |-> "", max_row |-> 0]
FlowOptions(cid, fid) ==
    [env |-> <<<<"client_id", cid>>, <<"flow_id", fid>>>>,
     org_id |-> "", max_row |-> 0]

Panic(what) == [kind |-> "Panic", rows |-> <<>>, log |-> <<what>>]
ErrIo == [kind |-> "Io", rows |-> <<>>, log |-> <<>>]
\* main.rs:333 : format!("Flow {} failed.", &flow_id)
FlowFailed(fid) == [kind |-> "FlowFailed", rows |-> <<>>, log |-> <<"Flow", fid, "failed.">>]

\* the answers to the scheduling query
SubmitRow(fid) == [request |-> [flow_id |-> fid]]
ScheduleReplies ==
    {ReplyRows(<<SubmitRow(f)>>) : f \in FlowIds}
    \cup {ReplyRows(<<SubmitRow("F.2"), SubmitRow("F.1")>>), ReplyRows(<<>>)}
    \cup ReplyFailures

\* the answers to the status query
StatusRow(st) == [state |-> st]
StatusReplies ==
    {ReplyRows(<<StatusRow(st)>>) : st \in {"RUNNING", "FINISHED", "ERROR", "UNSET"}}
    \cup {ReplyRows(<<StatusRow("RUNNING"), StatusRow("FINISHED")>>), ReplyRows(<<>>)}
    \cup ReplyFailures

\* the answers to the results query
ResultReplies ==
    {ReplyRows(<<>>), ReplyRows(<<"rowA">>), ReplyRows(<<"rowA", "rowB">>),
     Reply("ok", <<Msg(ArrayText(<<"rowB">>), NoLog), Msg(ArrayText(<<"rowA">>), NoLog)>>,
           "eof"),
     Reply("ok", <<Msg(ArrayText(<<"rowA">>), NoLog)>>, "error")}
    \cup ReplyFailures

\* the answers to the logs query. client_time is in units of 1000 s.
Levels == {"INFO", "WARN", "ERROR"}
ClientTimes == {1700000, 253402301}
LogEntries == [client_time : ClientTimes, level : Levels, message : {"m"}]
LogBatches == UNION {[1..n -> LogEntries] : n \in 1..MaxLog}
LogReplies ==
    {ReplyRows(b) : b \in LogBatches} \cup {ReplyRows(<<>>)} \cup ReplyFailures

\* time::OffsetDateTime::from_unix_timestamp, main.rs:319 : seconds outside
\* the years -9999..=9999 are an error (here in units of 1000 s)
from_unix_timestamp(t) == t >= -377705117 /\ t <= 253402300

\* lib.rs:271, main.rs:160 : requests[0].request.flow_id
FirstFlowId(rows) == rows[1].request.flow_id

\* lib.rs:313, main.rs:225 : status.first().cloned().unwrap_or_default().state
FirstState(rows) == IF rows = <<>> THEN "" ELSE rows[1].state

\* lib.rs:315, main.rs:227 : the test that keeps the status loop polling
IsUnfinished(state) == state # "FINISHED"
IsRunning(state) == state = "RUNNING"

\* lib.rs:334, 360, main.rs:191 : result.is_empty(), the answer that is retried
NeverEmpty(rows) == FALSE
is_empty(rows) == rows = <<>>

\* main.rs:309-312, 341-342, lib.rs:290, 343 : what follows scheduling
AfterSchedule(m) == IF m \in {"lib_fetch", "cli_shell"} THEN "status" ELSE "logs"

\* one sync_query invocation: the request built, the session and call made
Invoke(query, options, reply) ==
    /\ issued' = Append(issued, VqlCollectorArgs(query, options))
    /\ sessions' = sessions + SessionsOf(reply)
    /\ rpcs' = rpcs + CallsOf(reply)
    /\ streamFailed' = (streamFailed \/ StreamErrorReached(reply))

\* lib.rs:233-273, main.rs:126-161
Schedule ==
    /\ wpc = "schedule"
    /\ \E reply \in ScheduleReplies :
        LET out == sync_query(reply)
        IN  /\ Invoke(Q_COLLECT, ScheduleOptions(client_id, artifact, command), reply)
            /\ submitSeen' = IF out.kind = "Ok" THEN <<out.rows>> ELSE submitSeen
            /\ IF out.kind # "Ok"
               THEN /\ woutcome' = out
                    /\ wpc' = "done"
                    /\ UNCHANGED flow_id
               ELSE IF out.rows = <<>>
               THEN /\ woutcome' = Panic("index out of bounds")
                    /\ wpc' = "done"
                    /\ UNCHANGED flow_id
               ELSE /\ flow_id' = FirstFlowId(out.rows)
                    /\ wpc' = AfterSchedule(mode)
                    /\ UNCHANGED woutcome
    /\ UNCHANGED <<mode, client_id, artifact, command, sleeps, statusSeen,
                   logSeen, resultSeen, emitted>>
    /\ UNCHANGED <<qvars, fvars, tvars>>

\* lib.rs:304-319, main.rs:217-233 : one status poll and what follows it
PollStatus ==
    /\ wpc = "status"
    /\ Len(statusSeen) < MaxPolls
    /\ \E reply \in StatusReplies :
        LET out == sync_query(reply)
            state == FirstState(out.rows)
        IN  /\ Invoke(Q_FLOWS, FlowOptions(client_id, flow_id), reply)
            /\ IF out.kind # "Ok"
               THEN /\ woutcome' = out
                    /\ wpc' = "done"
                    /\ UNCHANGED <<statusSeen, sleeps>>
               ELSE /\ statusSeen' = Append(statusSeen, state)
                    /\ UNCHANGED woutcome
                    /\ IF ~IsRunning(state)
                       THEN /\ wpc' = IF IsCli THEN "dbgresult" ELSE "results"
                            /\ sleeps' = IF IsCli THEN Append(sleeps, 1000) ELSE sleeps
                       ELSE /\ sleeps' = Append(sleeps, 100)
                            /\ UNCHANGED wpc
    /\ UNCHANGED <<mode, client_id, artifact, command, flow_id, submitSeen, logSeen,
                   resultSeen, emitted>>
    /\ UNCHANGED <<qvars, fvars, tvars>>

\* lib.rs:326-340 : one results poll of ClientFlow::fetch
PollResults ==
    /\ wpc = "results"
    /\ ~IsCli
    /\ Len(resultSeen) < MaxPolls
    /\ \E reply \in ResultReplies :
        LET out == sync_query(reply)
        IN  /\ Invoke(Q_FLOW_RESULTS, FlowOptions(client_id, flow_id), reply)
            /\ IF out.kind # "Ok"
               THEN /\ woutcome' = out
                    /\ wpc' = "done"
                    /\ UNCHANGED <<resultSeen, sleeps>>
               ELSE /\ resultSeen' = Append(resultSeen, out.rows)
                    /\ IF ~is_empty(out.rows)
                       THEN /\ woutcome' = Ok(out.rows)
                            /\ wpc' = "done"
                            /\ UNCHANGED sleeps
                       ELSE /\ sleeps' = Append(sleeps, 100)
                            /\ UNCHANGED <<wpc, woutcome>>
    /\ UNCHANGED <<mode, client_id, artifact, command, flow_id, submitSeen, statusSeen,
                   logSeen, emitted>>
    /\ UNCHANGED <<qvars, fvars, tvars>>

\* main.rs:235-241 : the results query whose rows are only logged
DebugResults ==
    /\ wpc = "dbgresult"
    /\ \E reply \in ResultReplies :
        LET out == sync_query(reply)
        IN  /\ Invoke(Q_FLOW_RESULTS, FlowOptions(client_id, flow_id), reply)
            /\ IF out.kind # "Ok"
               THEN /\ woutcome' = out
                    /\ wpc' = "done"
                    /\ UNCHANGED resultSeen
               ELSE /\ resultSeen' = Append(resultSeen, out.rows)
                    /\ wpc' = "results"
                    /\ UNCHANGED woutcome
    /\ UNCHANGED <<mode, client_id, artifact, command, flow_id, submitSeen, sleeps,
                   statusSeen, logSeen, emitted>>
    /\ UNCHANGED <<qvars, fvars, tvars>>

\* main.rs:243-249 : the results query of fetch_flow, returned as it is
FinalResults ==
    /\ wpc = "results"
    /\ IsCli
    /\ \E reply \in ResultReplies :
        LET out == sync_query(reply)
        IN  /\ Invoke(Q_FLOW_RESULTS, FlowOptions(client_id, flow_id), reply)
            /\ wpc' = "done"
            /\ IF out.kind # "Ok"
               THEN /\ woutcome' = out
                    /\ UNCHANGED resultSeen
               ELSE /\ resultSeen' = Append(resultSeen, out.rows)
                    /\ woutcome' = Ok(out.rows)
    /\ UNCHANGED <<mode, client_id, artifact, command, flow_id, submitSeen, sleeps,
                   statusSeen, logSeen, emitted>>
    /\ UNCHANGED <<qvars, fvars, tvars>>

\* lib.rs:352-376, main.rs:183-196 : one logs poll
PollLogs ==
    /\ wpc = "logs"
    /\ Len(logSeen) < MaxPolls
    /\ \E reply \in LogReplies :
        LET out == sync_query(reply)
        IN  /\ Invoke(Q_FLOW_LOGS, FlowOptions(client_id, flow_id), reply)
            /\ IF out.kind # "Ok"
               THEN /\ woutcome' = out
                    /\ wpc' = "done"
                    /\ UNCHANGED <<logSeen, sleeps>>
               ELSE /\ logSeen' = Append(logSeen, out.rows)
                    /\ IF is_empty(out.rows)
                       THEN /\ sleeps' = Append(sleeps, 100)
                            /\ UNCHANGED <<wpc, woutcome>>
                       ELSE /\ UNCHANGED sleeps
                            /\ IF mode = "lib_fetch_log"
                               THEN /\ woutcome' = Ok(out.rows)
                                    /\ wpc' = "done"
                               ELSE /\ wpc' = "classify"
                                    /\ UNCHANGED woutcome
    /\ UNCHANGED <<mode, client_id, artifact, command, flow_id, submitSeen, statusSeen,
                   resultSeen, emitted>>
    /\ UNCHANGED <<qvars, fvars, tvars>>

\* main.rs:328 : which level sets `err`
FailsOnWarnToo(level) == level \in {"ERROR", "WARN"}
IsErrorLevel(level) == level = "ERROR"

\* main.rs:315-331 : the loop over the entries of the batch. `failAt` is the
\* write to stderr that fails (0: none does).
RECURSIVE ClassifyFrom(_, _, _, _)
ClassifyFrom(entries, em, err, failAt) ==
    IF entries = <<>> THEN [end |-> "ok", emitted |-> em, err |-> err]
    ELSE LET entry == Head(entries)
             shown == entry.level = "ERROR" \/ entry.level = "WARN"
         IN  IF shown /\ ~from_unix_timestamp(entry.client_time)
             THEN [end |-> "panic", emitted |-> em, err |-> err]
             ELSE IF shown /\ Len(em) + 1 = failAt
             THEN [end |-> "io", emitted |-> em, err |-> err]
             ELSE ClassifyFrom(Tail(entries),
                               IF shown THEN Append(em, entry) ELSE em,
                               err \/ IsErrorLevel(entry.level),
                               failAt)

\* main.rs:315-334 : the batch fetch_flow_log returned is classified
Classify ==
    /\ wpc = "classify"
    /\ \E failAt \in 0..MaxLog :
        LET c == ClassifyFrom(logSeen[Len(logSeen)], <<>>, FALSE, failAt)
        IN  /\ failAt <= Len(c.emitted) + 1
            /\ emitted' = c.emitted
            /\ CASE c.end = "panic" ->
                      /\ woutcome' = Panic("called unwrap on an Err value")
                      /\ wpc' = "done"
                 [] c.end = "io" ->
                      /\ woutcome' = ErrIo
                      /\ wpc' = "done"
                 [] c.end = "ok" /\ c.err ->
                      /\ woutcome' = FlowFailed(flow_id)
                      /\ wpc' = "done"
                 [] OTHER ->
                      /\ wpc' = "status"
                      /\ UNCHANGED woutcome
    /\ UNCHANGED <<mode, client_id, artifact, command, flow_id, submitSeen, issued, sleeps,
                   statusSeen, logSeen, resultSeen, sessions, rpcs,
                   streamFailed>>
    /\ UNCHANGED <<qvars, fvars, tvars>>

(***************************************************************************)
(* The specifications.                                                     *)
(***************************************************************************)
IdleQuery ==
    /\ qpc = "idle"
    /\ qrequest = None
    /\ sent = <<>>
    /\ streamEnd = "open"
    /\ result = <<>>
    /\ qoutcome = NoOutcome

IdleFetch ==
    /\ fpc = "idle"
    /\ path = <<>>
    /\ fileSize = 0
    /\ fileSeed = 0
    /\ serveCap = ChunkLength
    /\ requests = <<>>
    /\ offset = 0
    /\ buf = <<>>
    /\ lastLen = <<>>
    /\ foutcome = FetchNone

IdleFlow ==
    /\ mode = "idle"
    /\ wpc = "idle"
    /\ client_id = None
    /\ artifact = None
    /\ command = None
    /\ flow_id = None
    /\ issued = <<>>
    /\ sleeps = <<>>
    /\ submitSeen = <<>>
    /\ statusSeen = <<>>
    /\ logSeen = <<>>
    /\ resultSeen = <<>>
    /\ emitted = <<>>
    /\ streamFailed = FALSE
    /\ woutcome = NoOutcome

\* the two concurrent tasks
Tasks == {1, 2}

IdleTasks ==
    /\ tpc = [t \in Tasks |-> "idle"]
    /\ tpair = [t \in Tasks |-> None]
    /\ tissued = [t \in Tasks |-> <<>>]
    /\ toutcome = [t \in Tasks |-> NoOutcome]
    /\ script = [t \in Tasks |-> None]
    /\ served = [t \in Tasks |-> None]

NoCalls ==
    /\ sessions = 0
    /\ rpcs = 0

Queries == {"SELECT * FROM info()", "SELECT * FROM clients()"}
OptionSets ==
    {QueryOptionsDefault,
     [env |-> <<<<"k", "v">>, <<"k", "w">>>>, org_id |-> "O1", max_row |-> 10]}

InitQuery ==
    /\ qpc = "start"
    /\ \E q \in Queries, o \in OptionSets : qrequest = VqlCollectorArgs(q, o)
    /\ sent = <<>>
    /\ streamEnd = "open"
    /\ result = <<>>
    /\ qoutcome = NoOutcome
    /\ NoCalls
    /\ IdleFetch
    /\ IdleFlow
    /\ IdleTasks

NextQuery == OpenStream \/ NextMsg \/ NextEnd \/ NextErr

SpecQuery == InitQuery /\ [][NextQuery]_vars

\* longest path enumerated byte by byte
MaxPathLen == 4
\* the file sizes go up to this many whole chunks, and a byte around each
MaxChunks == 2
\* a service that answers with fewer bytes than asked for
ShortRead == 1000

PathBytes == {Sep, Dot, "a", BadByte}
EnumPaths == UNION {[1..n -> PathBytes] : n \in 0..MaxPathLen}
TraversalPath ==
    <<"a", Sep, Dot, Dot, Sep, Dot, Dot, Sep, "e", "t", "c", Sep,
      "p", "a", "s", "s", "w", "d">>
ExamplePaths == {TraversalPath, <<Sep, "d", Sep, Dot, Sep, "f", Sep>>}
FileSizes ==
    {n \in {c * ChunkLength + d : c \in 0..MaxChunks, d \in {0, 1, ChunkLength - 1}} :
        n >= 0}

InitFetch ==
    /\ fpc = "start"
    /\ \/ /\ path \in EnumPaths
          /\ fileSize \in {0, 1}
          /\ fileSeed = 0
          /\ serveCap = ChunkLength
       \/ /\ path \in ExamplePaths
          /\ fileSize \in FileSizes
          /\ fileSeed \in {0, 101}
          /\ serveCap \in {ChunkLength, ShortRead}
    /\ requests = <<>>
    /\ offset = 0
    /\ buf = <<>>
    /\ lastLen = <<>>
    /\ foutcome = FetchNone
    /\ NoCalls
    /\ IdleQuery
    /\ IdleFlow
    /\ IdleTasks

NextFetch == FetchStart \/ FetchChunk \/ FetchChunkFails

SpecFetch == InitFetch /\ [][NextFetch]_vars

InitFlow ==
    /\ mode \in Modes
    /\ wpc = "schedule"
    /\ client_id \in ClientIds
    /\ artifact \in ArtifactsOf(mode)
    /\ command \in Commands
    /\ flow_id = None
    /\ issued = <<>>
    /\ sleeps = <<>>
    /\ submitSeen = <<>>
    /\ statusSeen = <<>>
    /\ logSeen = <<>>
    /\ resultSeen = <<>>
    /\ emitted = <<>>
    /\ streamFailed = FALSE
    /\ woutcome = NoOutcome
    /\ NoCalls
    /\ IdleQuery
    /\ IdleFetch
    /\ IdleTasks

NextFlow ==
    \/ Schedule
    \/ PollStatus
    \/ PollResults
    \/ DebugResults
    \/ FinalResults
    \/ PollLogs
    \/ Classify

SpecFlow == InitFlow /\ [][NextFlow]_vars

(***************************************************************************)
(* Two ClientFlow::fetch tasks on one APIClient, lib.rs:277-341. The       *)
(* service keeps, for each flow, the answers it will give to the status    *)
(* and results polls that name that flow.                                  *)
(***************************************************************************)
\* most Running answers, and most empty results, of a flow
MaxWaits == 1

\* what the service has for a flow: `running` status answers Running and
\* then `status`; `empty` empty results and then `results`
FinalStatus ==
    {ReplyRows(<<StatusRow("FINISHED")>>), ReplyRows(<<>>), Reply("status", <<>>, "eof")}
Scripts ==
    [running : 0..MaxWaits, status : FinalStatus,
     empty : 0..MaxWaits, results : {"rows", "malformed"}]

\* the row of the results of the flow of a pair
ResultRow(pair) == [client_id |-> pair[1], flow_id |-> pair[2]]

\* the service's answer to the n-th status poll, and to the n-th results
\* poll, that names the flow of task u
StatusAnswer(u, n) ==
    IF n <= script[u].running THEN ReplyRows(<<StatusRow("RUNNING")>>)
    ELSE script[u].status
ResultAnswer(u, n) ==
    IF n <= script[u].empty THEN ReplyRows(<<>>)
    ELSE IF script[u].results = "rows" THEN ReplyRows(<<ResultRow(tpair[u])>>)
    ELSE Reply("ok", <<Msg(BadText, NoLog)>>, "eof")

\* the pair a request names in its environment, and the task whose flow it is
RequestPair(req) == <<req.env[1].value, req.env[2].value>>
OwnerOf(pair) == CHOOSE u \in Tasks : tpair[u] = pair

\* lib.rs:296-302 : the options built from self.client_id and self.flow_id
OptionsOf(t) == FlowOptions(tpair[t][1], tpair[t][2])

\* lib.rs:306-312, 327-333 : a task issues the query of its loop
TaskSend(t) ==
    /\ tpc[t] \in {"status", "results"}
    /\ tissued' = [tissued EXCEPT ![t] =
            Append(@, VqlCollectorArgs(IF tpc[t] = "status" THEN Q_FLOWS
                                       ELSE Q_FLOW_RESULTS, OptionsOf(t)))]
    /\ tpc' = [tpc EXCEPT ![t] = IF tpc[t] = "status" THEN "await_status"
                                 ELSE "await_results"]
    /\ UNCHANGED <<tpair, toutcome, script, served, netvars>>
    /\ UNCHANGED <<qvars, fvars, wvars>>

\* lib.rs:311-318, 332-339 : the answer arrives; the service answers for the
\* flow the request names
TaskRecv(t) ==
    /\ tpc[t] \in {"await_status", "await_results"}
    /\ LET req == tissued[t][Len(tissued[t])]
           u == OwnerOf(RequestPair(req))
           isStatus == req.query[1].vql = Q_FLOWS
           reply == IF isStatus THEN StatusAnswer(u, served[u].status + 1)
                    ELSE ResultAnswer(u, served[u].results + 1)
           out == sync_query(reply)
       IN  /\ served' = [served EXCEPT ![u] =
                   IF isStatus THEN [@ EXCEPT !.status = @ + 1]
                   ELSE [@ EXCEPT !.results = @ + 1]]
           /\ sessions' = sessions + SessionsOf(reply)
           /\ rpcs' = rpcs + CallsOf(reply)
           /\ IF out.kind # "Ok"
              THEN /\ tpc' = [tpc EXCEPT ![t] = "done"]
                   /\ toutcome' = [toutcome EXCEPT ![t] = out]
              ELSE IF tpc[t] = "await_status"
              THEN /\ tpc' = [tpc EXCEPT ![t] =
                          IF ~IsRunning(FirstState(out.rows)) THEN "results"
                          ELSE "sleep_status"]
                   /\ UNCHANGED toutcome
              ELSE IF ~is_empty(out.rows)
              THEN /\ tpc' = [tpc EXCEPT ![t] = "done"]
                   /\ toutcome' = [toutcome EXCEPT ![t] = Ok(out.rows)]
              ELSE /\ tpc' = [tpc EXCEPT ![t] = "sleep_results"]
                   /\ UNCHANGED toutcome
    /\ UNCHANGED <<tpair, tissued, script>>
    /\ UNCHANGED <<qvars, fvars, wvars>>

\* lib.rs:318, 339 : sleep(100 ms) is over
TaskWake(t) ==
    /\ tpc[t] \in {"sleep_status", "sleep_results"}
    /\ tpc' = [tpc EXCEPT ![t] = IF tpc[t] = "sleep_status" THEN "status"
                                 ELSE "results"]
    /\ UNCHANGED <<tpair, tissued, toutcome, script, served, netvars>>
    /\ UNCHANGED <<qvars, fvars, wvars>>

\* the pairs of the two flows: the same client, or the same flow identifier
\* on two clients, or neither shared
OtherPairs == {<<"C.1", "F.2">>, <<"C.2", "F.1">>, <<"C.2", "F.2">>}

InitPair ==
    /\ tpc = [t \in Tasks |-> "status"]
    /\ \E p \in OtherPairs : tpair = [t \in Tasks |-> IF t = 1 THEN <<"C.1", "F.1">> ELSE p]
    /\ tissued = [t \in Tasks |-> <<>>]
    /\ toutcome = [t \in Tasks |-> NoOutcome]
    /\ script \in [Tasks -> Scripts]
    /\ served = [t \in Tasks |-> [status |-> 0, results |-> 0]]
    /\ NoCalls
    /\ IdleQuery
    /\ IdleFetch
    /\ IdleFlow

NextPair == \E t \in Tasks : TaskSend(t) \/ TaskRecv(t) \/ TaskWake(t)

SpecPair == InitPair /\ [][NextPair]_vars

(***************************************************************************)
(* Properties of sync_query, checked under SpecQuery.                      *)
(***************************************************************************)
\* the rows of every row-batch of `msgs` that is a non-empty text, in order
RECURSIVE RowsOf(_)
RowsOf(msgs) ==
    IF msgs = <<>> THEN <<>>
    ELSE (IF Head(msgs).response.kind = "array" THEN Head(msgs).response.rows ELSE <<>>)
         \o RowsOf(Tail(msgs))

\* a log line that begins with "VQL Error:"
BeginsWithSentinel(log) == Len(log) >= 2 /\ log[1] = "VQL" /\ log[2] = "Error:"

\* C1: when the stream ends normally (no error item, no decode failure, no
\* sentinel), the call returns exactly the rows of all the row-batches the
\* service sent, in arrival order: none dropped, duplicated or reordered, and
\* an empty batch after them removes nothing.
C1_RowsAreConcatenation ==
    (qpc = "done" /\ streamEnd = "eof") => qoutcome = Ok(RowsOf(sent))

\* C1 witness: two non-empty batches, then an empty one, then end of stream
C1_Witness ==
    /\ qpc = "done"
    /\ streamEnd = "eof"
    /\ Len(sent) = 3
    /\ sent[1].response = ArrayText(<<"rowA">>)
    /\ sent[2].response = ArrayText(<<"rowB", "rowA">>)
    /\ sent[3].response = ArrayText(<<>>)
    /\ qoutcome = Ok(<<"rowA", "rowB", "rowA">>)

\* C3 as stated: whenever a message of the stream carries a log line that
\* begins with the sentinel, the call has failed with the query-execution
\* error carrying that log line.
C3_SentinelAlwaysQueryError ==
    \A i \in 1..Len(sent) :
        BeginsWithSentinel(sent[i].log) =>
            /\ qpc = "done"
            /\ qoutcome = ErrVQL(sent[i].log)

\* C3 as amended: a message whose log line begins with the sentinel and whose
\* own row-batch is empty or decodes makes the call fail with the
\* query-execution error carrying the full log line, whatever valid batches
\* came before; no rows are returned and it is the last message consumed.
C3_SentinelFailsUnlessDecodeFails ==
    \A i \in 1..Len(sent) :
        (BeginsWithSentinel(sent[i].log) /\ sent[i].response.kind # "malformed") =>
            /\ qpc = "done"
            /\ qoutcome.kind = "VQL"
            /\ qoutcome.log = sent[i].log
            /\ qoutcome.rows = <<>>
            /\ i = Len(sent)
            /\ streamEnd = "open"

\* C3 witness: two valid batches, then a message with rows and the sentinel
C3_Witness ==
    /\ Len(sent) = 3
    /\ sent[1].response = ArrayText(<<"rowA">>)
    /\ sent[2].response = ArrayText(<<"rowB", "rowA">>)
    /\ sent[3] = Msg(ArrayText(<<"rowA">>), SentinelLog)
    /\ qoutcome = ErrVQL(SentinelLog)

\* C4: a stream that ended with an error item never gives a successful result
C4_ErrorItemIsReturnedAsError ==
    (qpc = "done" /\ streamEnd = "error") => qoutcome.kind \in APIClientError

(***************************************************************************)
(* Properties of fetch, checked under SpecFetch.                           *)
(***************************************************************************)
\* the N bytes of the service's file
FileContents == [i \in 1..fileSize |-> FileByte(i - 1)]

\* C5: against a service that serves its file of N bytes chunk by chunk and
\* answers with no bytes from offset N on, a fetch that returns successfully
\* returns exactly the N bytes in order, for N = 0, N a multiple of the chunk
\* length and N not a multiple; when the service fills every chunk this
\* takes one request per started chunk and a last one answered with no bytes.
C5_FetchReconstructsFile ==
    (fpc = "done" /\ foutcome.kind = "Ok") =>
        /\ foutcome.data = FileContents
        /\ Len(foutcome.data) = fileSize
        /\ lastLen[Len(lastLen)] = 0
        /\ serveCap = ChunkLength =>
               Len(requests) = ((fileSize + ChunkLength - 1) \div ChunkLength) + 1

\* C5 witness: N = 1025: a full chunk, a final short chunk, a zero-length one
C5_Witness ==
    /\ fpc = "done"
    /\ fileSize = ChunkLength + 1
    /\ lastLen = <<ChunkLength, 1, 0>>
    /\ foutcome = FetchOk(FileContents)

\* the pieces of the path that are neither empty nor "." nor ".."
RECURSIVE NamedPieces(_)
NamedPieces(pieces) ==
    IF pieces = <<>> THEN <<>>
    ELSE (IF Head(pieces) \in {<<>>, <<Dot>>, <<Dot, Dot>>} THEN <<>> ELSE <<Head(pieces)>>)
         \o NamedPieces(Tail(pieces))

NormalSegments(p) == NamedPieces(SplitAt(p, <<>>))

LossySegments(p) ==
    LET segs == NormalSegments(p)
    IN  [i \in 1..Len(segs) |->
            [j \in 1..Len(segs[i]) |->
                IF segs[i][j] = BadByte THEN Replacement ELSE segs[i][j]]]

EtcPasswdSegments == <<<<"a">>, <<"e", "t", "c">>, <<"p", "a", "s", "s", "w", "d">>>>

\* C6 as stated: every chunk request carries exactly the normal segments of
\* the requested path, in their original order.
C6_SegmentsAreTheNormalSegments ==
    \A i \in 1..Len(requests) : requests[i].components = NormalSegments(path)

\* C6 as amended: every chunk request carries the normal segments of the
\* requested path in their original order, each converted to text with every
\* byte that is not valid UTF-8 replaced by U+FFFD; root, "." and ".."
\* segments are never sent, and "a/../../etc/passwd" is sent as
\* ["a", "etc", "passwd"].
C6_SegmentsAreTheLossyNormalSegments ==
    \A i \in 1..Len(requests) :
        /\ requests[i].components = LossySegments(path)
        /\ \A k \in 1..Len(requests[i].components) :
            LET seg == requests[i].components[k]
            IN  /\ seg \notin {<<>>, <<Dot>>, <<Dot, Dot>>}
                /\ \A j \in 1..Len(seg) : seg[j] # Sep
        /\ path = TraversalPath => requests[i].components = EtcPasswdSegments

\* C6 witness: "a/../../etc/passwd" fetched in more than one request
C6_Witness ==
    /\ path = TraversalPath
    /\ Len(requests) >= 2
    /\ \A i \in 1..Len(requests) : requests[i].components = EtcPasswdSegments

(***************************************************************************)
(* Properties of the flow operations, checked under SpecFlow.              *)
(***************************************************************************)
\* the requests issued so far whose query text is `q`
IssuedWith(q) == {i \in 1..Len(issued) : issued[i].query[1].vql = q}

\* the modes that retrieve the results of a flow
RetrievesResults == mode \in {"lib_fetch", "cli_query", "cli_shell"}

\* k Running answers then a non-Running one, m empty results then the rows
\* returned, and one 100 ms backoff between consecutive polls
PolledAsScripted ==
    LET k == Len(statusSeen) - 1
        m == Len(resultSeen) - 1
    IN  /\ k >= 0
        /\ \A i \in 1..k : statusSeen[i] = "RUNNING"
        /\ statusSeen[k + 1] # "RUNNING"
        /\ Cardinality(IssuedWith(Q_FLOWS)) = k + 1
        /\ m >= 0
        /\ \A i \in 1..m : resultSeen[i] = <<>>
        /\ resultSeen[m + 1] # <<>>
        /\ woutcome.rows = resultSeen[m + 1]
        /\ Cardinality(IssuedWith(Q_FLOW_RESULTS)) = m + 1
        /\ sleeps = [i \in 1..(k + m) |-> 100]

\* C7: flow result retrieval that returns successfully has seen k Running
\* states and then a non-Running one in exactly k+1 status polls, m empty
\* results and then the rows R it returns in exactly m+1 result polls, with
\* one backoff between consecutive polls and no poll after the first
\* non-empty result; it never returns an empty result set.
C7_ReturnsFirstNonEmptyResult ==
    (RetrievesResults /\ wpc = "done" /\ woutcome.kind = "Ok") => PolledAsScripted

\* the same for ClientFlow::fetch of the library alone, lib.rs:290-341
LibFetchPolledAsScripted ==
    (mode = "lib_fetch" /\ wpc = "done" /\ woutcome.kind = "Ok") => PolledAsScripted

\* the non-empty batch fetch_flow_log returned holds an ERROR entry
AcceptedBatchHasError ==
    /\ logSeen # <<>>
    /\ \E j \in 1..Len(logSeen[Len(logSeen)]) : logSeen[Len(logSeen)][j].level = "ERROR"

\* C8: once the first non-empty log batch with an ERROR entry in it has been
\* classified, the operation has failed with the flow-failed error naming
\* the flow, and no results query has been issued. (A failed write to stderr
\* is let pass here: the operation then fails with that write's error.)
C8_ErrorEntryFailsTheFlow ==
    (mode = "cli_query" /\ wpc \notin {"schedule", "logs", "classify"}
        /\ AcceptedBatchHasError) =>
        /\ wpc = "done"
        /\ woutcome \in {FlowFailed(flow_id), ErrIo}
        /\ IssuedWith(Q_FLOW_RESULTS) = {}

\* the same when every timestamp resolves and every write to stderr succeeds
ErrorEntryFailsTheFlowIfShown ==
    (mode = "cli_query" /\ wpc \notin {"schedule", "logs", "classify"}
        /\ AcceptedBatchHasError /\ woutcome.kind \notin {"Panic", "Io"}) =>
        /\ wpc = "done"
        /\ woutcome = FlowFailed(flow_id)
        /\ IssuedWith(Q_FLOW_RESULTS) = {}

\* C9: scheduling issues exactly one query call, the first of the operation,
\* for the root organization, with the environment client_id, artifact and
\* Command bound to the given values; on success the flow identifier is the
\* flow_id of the first row of its result.
C9_ScheduleIssuesOneQuery ==
    /\ wpc = "schedule" => issued = <<>>
    /\ wpc # "schedule" =>
        /\ IssuedWith(Q_COLLECT) = {1}
        /\ issued[1].org_id = ""
        /\ issued[1].env = <<[key |-> "client_id", value |-> client_id],
                             [key |-> "artifact", value |-> artifact],
                             [key |-> "Command", value |-> command]>>
        /\ Len(issued[1].query) = 1
    /\ flow_id # None =>
        /\ Len(submitSeen) = 1
        /\ submitSeen[1] # <<>>
        /\ flow_id = submitSeen[1][1].request.flow_id

\* C9 witness: scheduling on C.2 answered with two rows, F.2 first
C9_Witness ==
    /\ client_id = "C.2"
    /\ Len(issued) = 1
    /\ submitSeen = <<<<SubmitRow("F.2"), SubmitRow("F.1")>>>>
    /\ flow_id = "F.2"

\* C10: a scheduling query that succeeds with no row makes scheduling return
\* an error value: no flow identifier is made up and the process goes on.
C10_EmptyScheduleIsAnErrorValue ==
    submitSeen = <<<<>>>> =>
        /\ flow_id = None
        /\ woutcome.kind \notin {"none", "Ok", "Panic"}

\* the non-empty batch fetch_flow_log returned holds no ERROR entry
AcceptedBatchHasNoError ==
    /\ logSeen # <<>>
    /\ logSeen[Len(logSeen)] # <<>>
    /\ \A j \in 1..Len(logSeen[Len(logSeen)]) : logSeen[Len(logSeen)][j].level # "ERROR"

\* C11: once the first non-empty log batch, with no ERROR entry in it, has
\* been classified, the operation has not failed because of the logs,
\* whatever number of WARN entries the batch holds, and it has gone on to
\* retrieve the results of the flow. (A failed write to stderr is let pass
\* here: the operation then fails with that write's error.)
C11_WarnEntriesDoNotFailTheFlow ==
    (mode = "cli_query" /\ wpc \notin {"schedule", "logs", "classify"}
        /\ AcceptedBatchHasNoError /\ woutcome # ErrIo) =>
        /\ woutcome.kind \notin {"FlowFailed", "Panic"}
        /\ wpc = "done" => IssuedWith(Q_FLOWS) # {}

\* the same when every timestamp resolves
WarnEntriesDoNotFailTheFlowIfShown ==
    (mode = "cli_query" /\ wpc \notin {"schedule", "logs", "classify"}
        /\ AcceptedBatchHasNoError /\ woutcome.kind \notin {"Panic", "Io"}) =>
        /\ woutcome.kind # "FlowFailed"
        /\ wpc = "done" => IssuedWith(Q_FLOWS) # {}

\* the step issues a status query
IssuesStatusQuery ==
    /\ Len(issued') = Len(issued) + 1
    /\ issued'[Len(issued')].query[1].vql = Q_FLOWS

\* the step observes the state `st` of a status poll that succeeded
ObservesStatus(st) ==
    /\ Len(statusSeen') = Len(statusSeen) + 1
    /\ statusSeen'[Len(statusSeen')] = st

StatesSeen == {"RUNNING", "FINISHED", "ERROR", "UNSET", ""}

\* C12: a status query is issued only as the first poll or after a poll that
\* observed Running; a poll that observes Running is followed by one 100 ms
\* backoff and stays in status polling; a poll that observes any other state
\* (Finished, Error, Unset, or no row at all) ends status polling without an
\* error, without that backoff, and moves on to the next phase.
C12_StatusPollingContinuesIffRunning ==
    [][/\ IssuesStatusQuery =>
            /\ wpc = "status"
            /\ statusSeen = <<>> \/ statusSeen[Len(statusSeen)] = "RUNNING"
       /\ \A st \in StatesSeen : ObservesStatus(st) =>
            IF st = "RUNNING"
            THEN /\ wpc' = "status"
                 /\ sleeps' = Append(sleeps, 100)
                 /\ woutcome' = NoOutcome
            ELSE /\ wpc' = (IF IsCli THEN "dbgresult" ELSE "results")
                 /\ woutcome' = NoOutcome
                 /\ sleeps' \in {sleeps, Append(sleeps, 1000)}
       /\ Len(statusSeen') # Len(statusSeen) => \E st \in StatesSeen : ObservesStatus(st)
      ]_vars

\* C12 witness: a Running state, one backoff, then an Error state that ends
\* status polling of ClientFlow::fetch without an error
C12_Witness ==
    /\ mode = "lib_fetch"
    /\ statusSeen = <<"RUNNING", "ERROR">>
    /\ sleeps = <<100>>
    /\ wpc = "results"
    /\ woutcome = NoOutcome
    /\ Cardinality(IssuedWith(Q_FLOWS)) = 2

\* C12 witness of the poll without a row: it ends status polling as well
StatusWithoutRowMovesOn ==
    /\ statusSeen = <<"">>
    /\ wpc = "results"
    /\ woutcome = NoOutcome

\* every query `q1` issued so far was issued before every query `q2`
AllBefore(q1, q2) ==
    \A i \in IssuedWith(q1) : \A j \in IssuedWith(q2) : i < j

\* status polling has observed a state that is not Running
StatusEnded ==
    /\ statusSeen # <<>>
    /\ statusSeen[Len(statusSeen)] # "RUNNING"

\* a non-empty log batch has been classified and has not failed the operation
LogsAccepted ==
    /\ AcceptedBatchHasNoError
    /\ wpc \notin {"logs", "classify"}
    /\ woutcome.kind \notin {"Panic", "Io", "FlowFailed"}

\* C13: the monitor runs status, then logs, then results: no logs query is
\* issued before status polling has observed a state that is not Running,
\* and no results query before a non-empty log batch has been accepted as
\* non-failing.
C13_StatusThenLogsThenResults ==
    RetrievesResults =>
        /\ IssuedWith(Q_FLOW_LOGS) # {} => StatusEnded
        /\ AllBefore(Q_FLOWS, Q_FLOW_LOGS)
        /\ IssuedWith(Q_FLOW_RESULTS) # {} => LogsAccepted
        /\ AllBefore(Q_FLOW_LOGS, Q_FLOW_RESULTS)

\* the order the code runs: the Query subcommand runs logs, then status, then
\* results: no status query is issued before a non-empty log batch has been
\* accepted as non-failing, and no results query before status polling has
\* observed a state that is not Running. ClientFlow::fetch and the shell
\* subcommands issue no logs query and run status, then results;
\* ClientFlow::fetch_log issues logs queries only.
LogsThenStatusThenResults ==
    /\ mode = "cli_query" =>
        /\ IssuedWith(Q_FLOWS) # {} => LogsAccepted
        /\ AllBefore(Q_FLOW_LOGS, Q_FLOWS)
    /\ mode \in {"lib_fetch", "cli_shell"} => IssuedWith(Q_FLOW_LOGS) = {}
    /\ RetrievesResults =>
        /\ IssuedWith(Q_FLOW_RESULTS) # {} => StatusEnded
        /\ AllBefore(Q_FLOWS, Q_FLOW_RESULTS)
    /\ mode = "lib_fetch_log" =>
        IssuedWith(Q_FLOWS) \cup IssuedWith(Q_FLOW_RESULTS) = {}

\* log retrieval (ClientFlow::fetch_log, fetch_flow_log) has just returned a
\* batch, every call of it having succeeded
LogRetrievalReturned ==
    /\ ~streamFailed
    /\ \/ mode = "lib_fetch_log" /\ wpc = "done" /\ woutcome.kind = "Ok"
       \/ mode = "cli_query" /\ wpc = "classify"

\* C14: log retrieval never returns an empty batch: when it returns, it has
\* seen m empty answers and then a non-empty batch L in exactly m+1 logs
\* queries, has waited one 100 ms backoff after each empty answer, and the
\* batch it returns is L, entries in arrival order.
C14_LogRetrievalReturnsFirstNonEmptyBatch ==
    LogRetrievalReturned =>
        LET m == Len(logSeen) - 1
        IN  /\ logSeen # <<>>
            /\ \A i \in 1..m : logSeen[i] = <<>>
            /\ logSeen[m + 1] # <<>>
            /\ Cardinality(IssuedWith(Q_FLOW_LOGS)) = m + 1
            /\ sleeps = [i \in 1..m |-> 100]
            /\ mode = "lib_fetch_log" => woutcome.rows = logSeen[m + 1]

\* C14 witness: two empty answers, then a batch of two entries that
\* ClientFlow::fetch_log returns
C14_Witness ==
    /\ mode = "lib_fetch_log"
    /\ wpc = "done"
    /\ ~streamFailed
    /\ Len(logSeen) = 3
    /\ logSeen[1] = <<>> /\ logSeen[2] = <<>>
    /\ woutcome =
         Ok(<<[client_time |-> 1700000, level |-> "WARN", message |-> "m"],
              [client_time |-> 1700000, level |-> "INFO", message |-> "m"]>>)
    /\ sleeps = <<100, 100>>

\* the bytes the first n responses carried
RECURSIVE BytesOf(_, _)
BytesOf(lens, n) == IF n = 0 THEN 0 ELSE BytesOf(lens, n - 1) + lens[n]

\* C15: in every state of a fetch the offset of the next chunk request is
\* the number of bytes received and appended so far: the first request has
\* offset 0, the offset of each later request is that of the one before plus
\* the bytes its response carried (also when fewer than the chunk length),
\* so it never decreases; every request carries the chunk length 1024 and
\* the segment list of the path.
C15_OffsetIsBytesReceived ==
    /\ offset = Len(buf)
    /\ offset = BytesOf(lastLen, Len(lastLen))
    /\ Len(lastLen) <= Len(requests)
    /\ \A i \in 1..Len(requests) :
        /\ requests[i].offset = BytesOf(lastLen, i - 1)
        /\ requests[i].length = ChunkLength
        /\ requests[i].components = PathSegments(path)
        /\ i > 1 => requests[i].offset >= requests[i - 1].offset
    /\ fpc = "loop" => VfsFileBuffer(path, offset).offset = Len(buf)

\* C15 witness: a service answering with short chunks: the second request
\* starts where the short first chunk ended, the third at the end of the file
C15_Witness ==
    /\ serveCap = ShortRead
    /\ fileSize = ChunkLength + 1
    /\ Len(requests) = 3
    /\ requests[1].offset = 0
    /\ requests[2].offset = ShortRead
    /\ requests[3].offset = fileSize
    /\ lastLen = <<ShortRead, fileSize - ShortRead, 0>>

\* the responses received so far that carried bytes
NonEmptyResponses == {i \in 1..Len(lastLen) : lastLen[i] > 0}

\* a zero-length response has been received
ZeroLengthReceived == lastLen # <<>> /\ lastLen[Len(lastLen)] = 0

\* C16: fetch has returned successfully exactly when it has received its
\* first zero-length response: every response before the last one carried
\* bytes (a short chunk does not end the transfer), no chunk request follows
\* the zero-length response, and a successful fetch has issued as many chunk
\* requests as it received non-empty responses, plus one.
C16_FetchEndsAtFirstZeroLengthResponse ==
    /\ foutcome.kind = "Ok" <=> ZeroLengthReceived
    /\ \A i \in 1..(Len(lastLen) - 1) : lastLen[i] > 0
    /\ ZeroLengthReceived =>
        /\ fpc = "done"
        /\ Len(requests) = Len(lastLen)
    /\ foutcome.kind = "Ok" =>
        /\ Len(requests) = Cardinality(NonEmptyResponses) + 1
        /\ rpcs = Len(requests)

\* C16 witness: two short chunks, neither of which ended the transfer, and
\* the zero-length response that did
C16_Witness ==
    /\ fpc = "done"
    /\ foutcome.kind = "Ok"
    /\ serveCap = ShortRead
    /\ fileSize = ChunkLength
    /\ lastLen = <<ShortRead, ChunkLength - ShortRead, 0>>
    /\ Len(requests) = 3

\* C17: once a request of a polling loop has failed, here by its stream
\* yielding an error item, the whole operation has ended with an error: no
\* further request, no backoff and retry, no partial rows returned.
C17_FirstFailedRequestEndsTheOperation ==
    (flow_id # None /\ streamFailed) =>
        /\ wpc = "done"
        /\ woutcome.kind \in APIClientError
        /\ woutcome.rows = <<>>

\* the same for the failures sync_query reports (the call refused, a
\* malformed batch, the sentinel log line): the operation has ended with
\* that error and returns no rows
ReportedFailureEndsTheOperation ==
    /\ woutcome.kind \in APIClientError => wpc = "done" /\ woutcome.rows = <<>>
    /\ wpc \in {"status", "logs", "results", "dbgresult", "classify"} =>
           woutcome = NoOutcome

\* the same for the chunk-read loop of fetch: a failed chunk request ends
\* fetch with the error, and the bytes read so far are not returned
FailedChunkEndsFetch ==
    Len(requests) > Len(lastLen) =>
        /\ fpc = "done"
        /\ foutcome = FetchErr("Status")

\* C18: a message whose row-batch is not a valid encoded array ends the
\* query call at that message with the decode error, which is none of the
\* transport, call-status and query-execution errors; the rows decoded from
\* earlier messages are not returned, no later item of the stream is
\* consumed, and the call has issued exactly one streaming request.
C18_MalformedBatchIsADecodeError ==
    \A i \in 1..Len(sent) :
        sent[i].response = BadText =>
            /\ i = Len(sent)
            /\ streamEnd = "open"
            /\ qpc = "done"
            /\ qoutcome = ErrMalformedResponse
            /\ qoutcome.kind \notin {"Transport", "Status", "VQL"}
            /\ qoutcome.rows = <<>>
            /\ sessions = 1
            /\ rpcs = 1

\* C18 witness: a batch of one row, then a malformed batch: the call fails
\* with the decode error and the row it had accumulated is not returned
C18_Witness ==
    /\ sent = <<Msg(ArrayText(<<"rowA">>), NoLog), Msg(BadText, NoLog)>>
    /\ result = <<"rowA">>
    /\ qoutcome = ErrMalformedResponse
    /\ rpcs = 1

\* the request sent was built from options with no field set
SentWithDefaultOptions ==
    /\ qpc # "start"
    /\ rpcs = 1
    /\ \E q \in Queries : qrequest = VqlCollectorArgs(q, QueryOptionsDefault)

\* C19: a request built from query options with no field set carries an
\* empty environment, the root organization and a max-rows hint of 10.
C19_DefaultOptionsSendTenRows ==
    SentWithDefaultOptions =>
        /\ qrequest.env = <<>>
        /\ qrequest.org_id = ""
        /\ qrequest.max_row = 10

\* what the code sends for them: the hint is 0
DefaultOptionsSendZeroRows ==
    SentWithDefaultOptions =>
        /\ qrequest.env = <<>>
        /\ qrequest.org_id = ""
        /\ qrequest.max_row = 0

\* the other half of C19: every environment pair of the options is sent, in
\* the given order, the second pair of a key included
EnvPairsAreSentInOrder ==
    \A o \in OptionSets :
        (\E q \in Queries : qrequest = VqlCollectorArgs(q, o)) =>
            /\ Len(qrequest.env) = Len(o.env)
            /\ \A i \in 1..Len(o.env) :
                   /\ qrequest.env[i].key = o.env[i][1]
                   /\ qrequest.env[i].value = o.env[i][2]

\* C20: every outgoing call is made on a session established for that call:
\* no session carries more than one call, and an operation that has ended
\* has established as many sessions as it has made calls.
C20_OneSessionPerCall ==
    /\ rpcs <= sessions
    /\ fpc = "done" => sessions = rpcs

\* what the code does: a query call is made on a session of its own
\* (lib.rs:131-132), and fetch establishes one session (lib.rs:186) on which
\* it makes every chunk request of its loop
SessionsPerOperation ==
    /\ fpc = "idle" => sessions = rpcs
    /\ fpc # "idle" =>
        /\ sessions <= 1
        /\ rpcs = Len(requests)
        /\ rpcs > 0 => sessions = 1

(***************************************************************************)
(* Properties of two concurrent tasks, checked under SpecPair.             *)
(***************************************************************************)
\* ClientFlow::fetch of task u run alone against the answers for its flow:
\* its outcome and the status and results polls it makes
RECURSIVE AloneFrom(_, _, _, _)
AloneFrom(u, phase, ns, nr) ==
    IF phase = "status"
    THEN LET out == sync_query(StatusAnswer(u, ns + 1))
         IN  IF out.kind # "Ok"
             THEN [outcome |-> out, status |-> ns + 1, results |-> nr]
             ELSE IF ~IsRunning(FirstState(out.rows))
             THEN AloneFrom(u, "results", ns + 1, nr)
             ELSE AloneFrom(u, "status", ns + 1, nr)
    ELSE LET out == sync_query(ResultAnswer(u, nr + 1))
         IN  IF out.kind # "Ok"
             THEN [outcome |-> out, status |-> ns, results |-> nr + 1]
             ELSE IF ~is_empty(out.rows)
             THEN [outcome |-> Ok(out.rows), status |-> ns, results |-> nr + 1]
             ELSE AloneFrom(u, "results", ns, nr + 1)

Alone(u) == AloneFrom(u, "status", 0, 0)

\* the requests of task t that carry query q
TaskIssuedWith(t, q) == {i \in 1..Len(tissued[t]) : tissued[t][i].query[1].vql = q}

\* C21: of two tasks monitoring distinct (client id, flow id) pairs on one
\* connection descriptor, under every interleaving of their polls and
\* backoff waits, each sends its own pair and no other in every query, and
\* when it has returned, its outcome and its numbers of status and results
\* polls are those of the same task run alone against the answers for its
\* flow.
C21_ConcurrentMonitorsAreIndependent ==
    \A t \in Tasks :
        /\ \A i \in 1..Len(tissued[t]) :
               /\ RequestPair(tissued[t][i]) = tpair[t]
               /\ Len(tissued[t][i].env) = 2
               /\ tissued[t][i].env[1].key = "client_id"
               /\ tissued[t][i].env[2].key = "flow_id"
        /\ tpc[t] = "done" =>
               /\ toutcome[t] = Alone(t).outcome
               /\ Cardinality(TaskIssuedWith(t, Q_FLOWS)) = Alone(t).status
               /\ Cardinality(TaskIssuedWith(t, Q_FLOW_RESULTS)) = Alone(t).results

\* C21 witness: both tasks have returned the rows of their own flow, the
\* first after a Running status and an empty result, the second at once
C21_Witness ==
    /\ tpair[2] = <<"C.1", "F.2">>
    /\ tpc = [t \in Tasks |-> "done"]
    /\ toutcome[1] = Ok(<<ResultRow(tpair[1])>>)
    /\ toutcome[2] = Ok(<<ResultRow(tpair[2])>>)
    /\ Len(tissued[1]) = 4
    /\ Len(tissued[2]) = 2

\* no step of a task changes what the other task reads: its position, its
\* identifiers, its requests, its outcome, and the answers for its flow
TaskStepsAreLocal ==
    [][\A t \in Tasks :
          tpc'[t] # tpc[t] =>
              \A u \in Tasks \ {t} :
                  /\ tpc'[u] = tpc[u]
                  /\ tpair'[u] = tpair[u]
                  /\ tissued'[u] = tissued[u]
                  /\ toutcome'[u] = toutcome[u]
                  /\ script'[u] = script[u]
                  /\ served'[u] = served[u]]_vars

(***************************************************************************)
(* Polling without a local bound.                                          *)
(***************************************************************************)
\* every call so far has succeeded and nothing else has failed the operation
NothingFailed ==
    /\ ~streamFailed
    /\ woutcome.kind \in {"none", "Ok"}

\* the service has answered Running to every status poll so far, or an
\* empty set to every results poll so far
KeptWaiting ==
    \/ \A i \in 1..Len(statusSeen) : statusSeen[i] = "RUNNING"
    \/ \A j \in 1..Len(resultSeen) : resultSeen[j] = <<>>

\* C22: flow result retrieval has no local bound on its polling: as long as
\* every call succeeds and the service has answered Running to every status
\* poll, or an empty set to every results poll, the operation has not
\* returned and has not given up with an error, after any number of polls.
C22_PollingNeverGivesUp ==
    (RetrievesResults /\ NothingFailed /\ KeptWaiting) =>
        /\ wpc # "done"
        /\ woutcome = NoOutcome

\* the same for ClientFlow::fetch of the library alone, lib.rs:304-340
LibPollingNeverGivesUp ==
    (mode = "lib_fetch" /\ NothingFailed /\ KeptWaiting) =>
        /\ wpc # "done"
        /\ woutcome = NoOutcome

\* the tasks of the runtime are scheduled fairly: a task that can take a
\* step (its answer has arrived, its sleep is over) takes it
FairSpecPair ==
    SpecPair /\ \A t \in Tasks : WF_vars(TaskSend(t) \/ TaskRecv(t) \/ TaskWake(t))

\* the other half of C22 for ClientFlow::fetch: against a service that
\* answers a status poll with a state that is not Running and a results poll
\* with rows after finitely many polls, fetch returns
LibFetchEventuallyReturns ==
    \A t \in Tasks : <>(tpc[t] = "done")

(***************************************************************************)
(* The order of the two tests on one message, checked under SpecQuery.     *)
(***************************************************************************)
\* C23: within one message the row-batch is handled before the log line: a
\* message with a malformed row-batch and a log line beginning with
\* "VQL Error:" ends the call with the decode error, not the
\* query-execution error; a message with a valid row-batch and the sentinel
\* ends it with the query-execution error, its rows having been appended to
\* the accumulated result first.
C23_RowBatchIsHandledBeforeLogLine ==
    \A i \in 1..Len(sent) :
        BeginsWithSentinel(sent[i].log) =>
            /\ i = Len(sent)
            /\ qpc = "done"
            /\ IF sent[i].response = BadText
               THEN /\ qoutcome = ErrMalformedResponse
                    /\ qoutcome.kind # "VQL"
                    /\ result = RowsOf(SubSeq(sent, 1, i - 1))
               ELSE /\ qoutcome = ErrVQL(sent[i].log)
                    /\ result = RowsOf(sent)

\* C23 witness: a batch of one row, then a message with a malformed batch
\* and the sentinel: the decode error
C23_Witness ==
    /\ sent = <<Msg(ArrayText(<<"rowA">>), NoLog), Msg(BadText, SentinelLog)>>
    /\ qpc = "done"
    /\ qoutcome = ErrMalformedResponse

\* the other case of C23: valid rows and the sentinel in one message: the
\* query-execution error, the rows appended before it
ValidBatchWithSentinelIsQueryError ==
    /\ sent = <<Msg(ArrayText(<<"rowB", "rowA">>), SentinelLog)>>
    /\ qoutcome = ErrVQL(SentinelLog)
    /\ result = <<"rowB", "rowA">>
====
